---- MODULE Spec2Model ----
(***************************************************************************)
(* Layout engine of svg_gen (geometry.py): the Position/Transformation    *)
(* algebra, the layout tree built by create_geometry, and the recursive   *)
(* layout routines of Domain, Gap, Hairpin, SplitComplex and Chain, run   *)
(* as a call stack with one frame per active layout() call.               *)
(*                                                                         *)
(* Numbers.  The code computes in floats.  Here a coordinate is an        *)
(* integer and an angle a whole number of eighth turns (pi/4) wherever    *)
(* the code's value is one: straight layouts, quarter-turn rotations.     *)
(* Every other value (an arc end point, an arcsine, an atan2 of such a    *)
(* point) is kept as the term the code evaluates, uninterpreted: equal    *)
(* terms are equal floats, and no claim below rests on two different      *)
(* terms being different numbers unless the comment there says why.       *)
(* The translation of a sum ((T1 + T2) + ...) + Tn that cannot be         *)
(* computed is the term "path" with the steps T1 .. Tn.                   *)
(*                                                                         *)
(* The tokeniser (lex.py) and the parser (parse.py) are pure functions of  *)
(* a text, each under a specification of its own.                          *)
(***************************************************************************)
EXTENDS Integers, Sequences, FiniteSets, TLC

DEFAULT_DOMAIN_LENGTH == 50
DEFAULT_BOUND_GAP == 5
DEFAULT_SPACING_GAP == 5

(* Bounds of the model *)
MaxNodes == 4      \* structural elements (Domain, Hairpin, SplitComplex) of an input tree
MaxLayouts == 2    \* calls of layout() on one layout tree
MaxCoord == 1      \* largest coordinate of an operand of the algebra checks
MaxChars == 4      \* characters of a text handed to the tokeniser
MaxTokens == 4     \* tokens of a notation handed to the parser

VARIABLES
  source,    \* the structural tree (complex.py) layout_geometry was handed, once called
  nodes,     \* the layout tree: a heap of geometry.Node objects, id = index
  stack,     \* active layout() calls, innermost last
  phase,     \* position of the caller
  layouts,   \* completed top-level layout() calls
  snapshot,  \* the transforms of every node when the first layout() call returned
  ops,       \* the operands of the algebra, or the text handed to the tokeniser or parser
  result     \* what the last operation on ops computed

vars == <<source, nodes, stack, phase, layouts, snapshot, ops, result>>

None == <<>>
Some(v) == <<v>>

(***************************************************************************)
(* Angles: e eighth turns plus the sum of the terms in s.                  *)
(***************************************************************************)
Angle(e) == [e |-> e, s |-> <<>>]

NegTerm(t) == [t EXCEPT !.sign = -t.sign]

AngAdd(a, b) == [e |-> a.e + b.e, s |-> a.s \o b.s]

AngNeg(a) == [e |-> -a.e, s |-> [k \in 1..Len(a.s) |-> NegTerm(a.s[k])]]

AngTerm(op, num, radius, pos) ==
  [e |-> 0, s |-> <<[op |-> op, sign |-> 1, num |-> num, radius |-> radius, pos |-> pos]>>]

(***************************************************************************)
(* Position                                                                *)
(***************************************************************************)
Vec(x, y) ==
  [op |-> "vec", x |-> x, y |-> y, a |-> Angle(0), radius |-> None, args |-> <<>>, steps |-> <<>>]

PosTerm(op, a, radius, args) ==
  [op |-> op, x |-> 0, y |-> 0, a |-> a, radius |-> radius, args |-> args, steps |-> <<>>]

\* the translation of ((steps[1] + steps[2]) + ...) + steps[n]
Path(steps) ==
  [op |-> "path", x |-> 0, y |-> 0, a |-> Angle(0), radius |-> None, args |-> <<>>, steps |-> steps]

IsVec(p) == p.op = "vec"

\* Position.angle: atan2(y, x)
PosAngle(p) ==
  IF ~IsVec(p) THEN AngTerm("atan2", 0, None, <<p>>)
  ELSE IF p.y = 0 /\ p.x >= 0 THEN Angle(0)
  ELSE IF p.y = 0 THEN Angle(4)
  ELSE IF p.x = 0 THEN Angle(IF p.y > 0 THEN 2 ELSE -2)
  ELSE IF p.x = p.y THEN Angle(IF p.x > 0 THEN 1 ELSE -3)
  ELSE IF p.x = -p.y THEN Angle(IF p.x > 0 THEN -1 ELSE 3)
  ELSE AngTerm("atan2", 0, None, <<p>>)

\* Position.norm squared (norm is its square root)
NormSq(p) == p.x * p.x + p.y * p.y

\* Position.translate
Translate(p, q) ==
  IF IsVec(p) /\ IsVec(q) THEN Vec(p.x + q.x, p.y + q.y)
  ELSE IF p = Vec(0, 0) THEN q
  ELSE IF q = Vec(0, 0) THEN p
  ELSE PosTerm("translate", Angle(0), None, <<p, q>>)

\* Position.rotate: (x cos t - y sin t, x sin t + y cos t)
Rotate(p, theta) ==
  IF theta = Angle(0) \/ p = Vec(0, 0) THEN p
  ELSE IF IsVec(p) /\ theta.s = <<>> /\ theta.e % 2 = 0
    THEN LET q == (theta.e \div 2) % 4
         IN  CASE q = 0 -> p
               [] q = 1 -> Vec(-p.y, p.x)
               [] q = 2 -> Vec(-p.x, -p.y)
               [] q = 3 -> Vec(p.y, -p.x)
  ELSE PosTerm("rotate", theta, None, <<p>>)

\* Position.__neg__
Neg(p) == IF IsVec(p) THEN Vec(-p.x, -p.y) ELSE PosTerm("neg", Angle(0), None, <<p>>)

(***************************************************************************)
(* Transformation                                                          *)
(***************************************************************************)
Transformation(translation, rotation) == [translation |-> translation, rotation |-> rotation]

Identity == Transformation(Vec(0, 0), Angle(0))

\* A slip: the negated translation is not rotated back
Inverse_unrotated(t) == Transformation(Neg(t.translation), AngNeg(t.rotation))

\* Transformation.inverse
Inverse(t) == Transformation(Rotate(Neg(t.translation), AngNeg(t.rotation)), AngNeg(t.rotation))

\* whole coordinates and a whole number of quarter turns
Exact(t) == IsVec(t.translation) /\ t.rotation.s = <<>> /\ t.rotation.e % 2 = 0

RECURSIVE SumRotations(_, _)
SumRotations(steps, k) ==
  IF k = 0 THEN Angle(0) ELSE AngAdd(SumRotations(steps, k - 1), steps[k].rotation)

\* the steps whose sum t is
StepsOf(t) ==
  IF t.translation.op = "path"
       /\ SumRotations(t.translation.steps, Len(t.translation.steps)) = t.rotation
    THEN t.translation.steps
    ELSE <<t>>

\* A slip: other's translation is rotated by other's rotation, not by self's
Compose_rotate_by_other(self, other) ==
  IF Exact(self) /\ Exact(other)
    THEN Transformation(Translate(self.translation, Rotate(other.translation, other.rotation)),
                        AngAdd(self.rotation, other.rotation))
  ELSE IF self = Identity THEN other
  ELSE Transformation(Path(StepsOf(self) \o <<other>>), AngAdd(self.rotation, other.rotation))

\* Transformation.__add__:
\* (self.translation.translate(other.translation.rotate(self.rotation)),
\*  self.rotation + other.rotation)
Compose(self, other) ==
  IF Exact(self) /\ Exact(other)
    THEN Transformation(Translate(self.translation, Rotate(other.translation, self.rotation)),
                        AngAdd(self.rotation, other.rotation))
  ELSE IF self = Identity THEN other
  ELSE Transformation(Path(StepsOf(self) \o <<other>>), AngAdd(self.rotation, other.rotation))

\* calculate_end_on_circle: ((r sin t, r (1 - cos t)), t)
calculate_end_on_circle(radius, theta) ==
  Transformation(PosTerm("circle", theta, Some(radius), <<>>), theta)

(***************************************************************************)
(* Structural model (complex.py).  Names of domains play no part in the   *)
(* layout and are left out.                                                *)
(***************************************************************************)
cNode(type, within, inner, left, right) ==
  [type |-> type, within |-> within, inner |-> inner, left |-> left, right |-> right]

cDomain == cNode("Domain", <<>>, None, None, None)
cHairpin(inner) == cNode("Hairpin", <<>>, Some(inner), None, None)
cSplitComplex(left, right) == cNode("SplitComplex", <<>>, None, left, right)
cChain(within) == cNode("Chain", within, None, None, None)

RECURSIVE ElementsOfSize(_), ChainsOfSize(_)

\* None, or a chain of k elements in all
BranchesOfSize(k) == IF k = 0 THEN {None} ELSE {Some(c) : c \in ChainsOfSize(k)}

\* The elements (Domain | Hairpin | SplitComplex) made of n elements in all
ElementsOfSize(n) ==
  (IF n = 1 THEN {cDomain} ELSE {})
  \cup {cHairpin(c) : c \in ChainsOfSize(n - 1)}
  \cup UNION {{cSplitComplex(l, r) : l \in BranchesOfSize(k), r \in BranchesOfSize(n - 1 - k)} :
              k \in 0..(n - 1)}

\* The chains, of at least one child, made of n elements in all
ChainsOfSize(n) ==
  IF n = 0 THEN {}
  ELSE {cChain(<<e>>) : e \in ElementsOfSize(n)}
       \cup UNION {{cChain(<<e>> \o c.within) : e \in ElementsOfSize(k), c \in ChainsOfSize(n - k)} :
                   k \in 1..(n - 1)}

\* Well-formed structural trees: what parse returns (one element unwrapped, or a Chain)
Sources == UNION {ElementsOfSize(n) \cup ChainsOfSize(n) : n \in 1..MaxNodes}

\* complex.Clover: a dataclass of complex.py that geometry.py has no class for
cClover(within) == cNode("Clover", within, None, None, None)

\* what the Clovers of the inputs hold
CloverWithin == <<cHairpin(cChain(<<cDomain>>))>>

RECURSIVE ElementsOrCloversOfSize(_), ChainsOrCloversOfSize(_)

BranchesOrCloversOfSize(k) ==
  IF k = 0 THEN {None} ELSE {Some(c) : c \in ChainsOrCloversOfSize(k)}

\* As ElementsOfSize, a Clover being one more element a Chain may hold
\* (Chain.within: list[Clover | Domain])
ElementsOrCloversOfSize(n) ==
  (IF n = 1 THEN {cDomain, cClover(CloverWithin)} ELSE {})
  \cup {cHairpin(c) : c \in ChainsOrCloversOfSize(n - 1)}
  \cup UNION {{cSplitComplex(l, r) : l \in BranchesOrCloversOfSize(k),
                                      r \in BranchesOrCloversOfSize(n - 1 - k)} :
              k \in 0..(n - 1)}

ChainsOrCloversOfSize(n) ==
  IF n = 0 THEN {}
  ELSE {cChain(<<e>>) : e \in ElementsOrCloversOfSize(n)}
       \cup UNION {{cChain(<<e>> \o c.within) : e \in ElementsOrCloversOfSize(k),
                                                c \in ChainsOrCloversOfSize(n - k)} :
                   k \in 1..(n - 1)}

\* The trees that hold a Clover at the root or in a Chain
UnsupportedSources ==
  UNION {ElementsOrCloversOfSize(n) \cup ChainsOrCloversOfSize(n) : n \in 1..MaxNodes} \ Sources

(***************************************************************************)
(* Layout tree: geometry.Node and its subclasses, as heap records          *)
(***************************************************************************)
\* Node.__init__ and the subclass fields
GNode(kind, parent) ==
  [kind |-> kind, parent |-> parent,
   pre |-> 0, post |-> 0, inner |-> 0, left |-> 0, right |-> 0, within |-> <<>>,
   end_transform |-> None, local_transform |-> Identity,
   is_start |-> FALSE, is_end |-> FALSE,
   circle_radius |-> None, circle_theta |-> None,
   length |-> 0, gap |-> 0]

\* Gap.__init__
NewGap(parent) == [GNode("Gap", parent) EXCEPT !.length = DEFAULT_SPACING_GAP]

\* Domain.__init__
NewDomain(parent) == [GNode("Domain", parent) EXCEPT !.length = DEFAULT_DOMAIN_LENGTH]

\* What create_geometry leaves when it raises NotImplementedError: no tree
NotImplementedError == <<GNode("NotImplementedError", 0)>>

RECURSIVE create_geometry(_, _, _), CreateWithin(_, _, _, _)

\* Chain.__init__: the children of chain id, built left to right; an error
\* raised for a child leaves the list comprehension at once
CreateWithin(h, id, srcs, k) ==
  IF k > Len(srcs) THEN h
  ELSE LET child == Len(h) + 1
           h2 == create_geometry(h, id, srcs[k])
       IN  IF h2 = NotImplementedError THEN NotImplementedError
           ELSE CreateWithin([h2 EXCEPT ![id].within = Append(@, child)], id, srcs, k + 1)

\* A slip: a Clover, which has a within list as a Chain has, is built as a Chain
create_geometry_clover_as_chain(h, parent, node) ==
  LET id == Len(h) + 1 IN
  CASE node.type = "Domain" -> Append(h, NewDomain(parent))
    [] node.type = "Hairpin" ->
         LET self == [GNode("Hairpin", parent) EXCEPT
                        !.pre = id + 1, !.post = id + 2, !.inner = id + 3, !.gap = DEFAULT_BOUND_GAP]
             h3 == h \o <<self, NewDomain(id), NewDomain(id)>>
         IN  create_geometry(h3, id, node.inner[1])
    [] node.type = "SplitComplex" ->
         LET self == [GNode("SplitComplex", parent) EXCEPT
                        !.pre = id + 1, !.post = id + 2, !.gap = DEFAULT_BOUND_GAP]
             h3 == h \o <<self, NewDomain(id), NewDomain(id)>>
             hl == IF node.left # None
                     THEN create_geometry([h3 EXCEPT ![id].left = id + 3], id, node.left[1])
                     ELSE h3
             hr == IF node.right # None
                     THEN create_geometry([hl EXCEPT ![id].right = Len(hl) + 1], id, node.right[1])
                     ELSE hl
         IN  hr
    [] node.type \in {"Chain", "Clover"} ->
         CreateWithin(Append(h, GNode("Chain", parent)), id, node.within, 1)

\* create_geometry(parent, node): the heap with the layout tree of node added;
\* the root of the added tree is Len(h) + 1.  Hairpin and SplitComplex build
\* their chains with Chain(...), whose children come back through here.
create_geometry(h, parent, node) ==
  LET id == Len(h) + 1 IN
  CASE node.type = "Domain" -> Append(h, NewDomain(parent))
    [] node.type = "Hairpin" ->
         LET self == [GNode("Hairpin", parent) EXCEPT
                        !.pre = id + 1, !.post = id + 2, !.inner = id + 3, !.gap = DEFAULT_BOUND_GAP]
             h3 == h \o <<self, NewDomain(id), NewDomain(id)>>
         IN  create_geometry(h3, id, node.inner[1])
    [] node.type = "SplitComplex" ->
         LET self == [GNode("SplitComplex", parent) EXCEPT
                        !.pre = id + 1, !.post = id + 2, !.gap = DEFAULT_BOUND_GAP]
             h3 == h \o <<self, NewDomain(id), NewDomain(id)>>
             hl == IF node.left # None
                     THEN create_geometry([h3 EXCEPT ![id].left = id + 3], id, node.left[1])
                     ELSE h3
             hr == IF hl = NotImplementedError THEN NotImplementedError
                   ELSE IF node.right # None
                     THEN create_geometry([hl EXCEPT ![id].right = Len(hl) + 1], id, node.right[1])
                     ELSE hl
         IN  hr
    [] node.type = "Chain" ->
         CreateWithin(Append(h, GNode("Chain", parent)), id, node.within, 1)
    [] OTHER -> NotImplementedError

\* start_to_end of each class
start_to_end(h, id) ==
  CASE h[id].kind \in {"Domain", "Gap"} -> h[id].length
    [] h[id].kind \in {"Hairpin", "SplitComplex"} -> h[id].gap
    [] h[id].kind = "Chain" -> DEFAULT_BOUND_GAP

\* needs_circle_fix of each class
needs_circle_fix(h, id) == h[id].kind \in {"Hairpin", "SplitComplex"}

RECURSIVE set_as_start(_, _), set_as_end(_, _)

\* set_as_start of each class
set_as_start(h, id) ==
  CASE h[id].kind \in {"Domain", "Gap"} -> [h EXCEPT ![id].is_start = TRUE]
    [] h[id].kind \in {"Hairpin", "SplitComplex"} -> set_as_start(h, h[id].pre)
    [] h[id].kind = "Chain" -> set_as_start(h, h[id].within[1])

\* A slip: a Chain hands set_as_end to its first child, as set_as_start does
set_as_end_first_child(h, id) ==
  CASE h[id].kind \in {"Domain", "Gap"} -> [h EXCEPT ![id].is_end = TRUE]
    [] h[id].kind \in {"Hairpin", "SplitComplex"} -> set_as_end(h, h[id].post)
    [] h[id].kind = "Chain" -> set_as_end(h, h[id].within[1])

\* set_as_end of each class
set_as_end(h, id) ==
  CASE h[id].kind \in {"Domain", "Gap"} -> [h EXCEPT ![id].is_end = TRUE]
    [] h[id].kind \in {"Hairpin", "SplitComplex"} -> set_as_end(h, h[id].post)
    [] h[id].kind = "Chain" -> set_as_end(h, h[id].within[Len(h[id].within)])

RECURSIVE visit_node(_, _), VisitWithin(_, _, _)

\* SVGRenderer.visit_node, the loop over the children of a Chain from child k on
VisitWithin(h, within, k) ==
  IF k > Len(within) THEN <<>> ELSE visit_node(h, within[k]) \o VisitWithin(h, within, k + 1)

\* SVGRenderer.visit_node(node): the Domains and Gaps in the order they are
\* drawn; node 0 is a branch that is None
visit_node(h, id) ==
  IF id = 0 THEN <<>>
  ELSE CASE h[id].kind = "Chain" -> VisitWithin(h, h[id].within, 1)
         [] h[id].kind = "SplitComplex" ->
              <<h[id].pre>> \o visit_node(h, h[id].left) \o visit_node(h, h[id].right) \o <<h[id].post>>
         [] h[id].kind = "Hairpin" ->
              <<h[id].pre>> \o visit_node(h, h[id].inner) \o <<h[id].post>>
         [] h[id].kind \in {"Domain", "Gap"} -> <<id>>

(***************************************************************************)
(* Radii.  A radius is circumference / (2 pi) for a whole circumference.  *)
(***************************************************************************)
Radius(circumference) == [circumference |-> circumference]

\* Python truth value of an Optional[float]: neither None nor 0.0
Truthy(radius) == radius # None /\ radius[1].circumference # 0

\* length / radius
ArcTheta(length, radius) == AngTerm("length/radius", length, Some(radius), <<>>)

\* A slip: the chord is divided by r, not 2 r
AsinDefined_unhalved(gap, radius) == 2 * 355 * gap <= 113 * radius.circumference

\* math.asin(gap / (2 r)) is defined iff gap <= 2 r, i.e. pi * gap <= circumference;
\* pi < 355/113, and no whole circumference lies between pi * gap and 355/113 * gap
AsinDefined(gap, radius) == 355 * gap <= 113 * radius.circumference

\* 2 asin(gap / (2 r))
ChordTheta(gap, radius) == AngTerm("2asin(gap/2radius)", gap, Some(radius), <<>>)

(***************************************************************************)
(* The layout routines                                                     *)
(***************************************************************************)
StraightEnd(length) == Transformation(Vec(0, -length), Angle(-2))

\* A slip: straight ahead is taken to be along x, as the end of a Hairpin is
Domain_layout_along_x(h, id, circle_radius) ==
  IF Truthy(circle_radius)
    THEN LET theta == ArcTheta(h[id].length, circle_radius[1])
         IN  [h EXCEPT ![id].circle_radius = circle_radius,
                       ![id].circle_theta = Some(theta),
                       ![id].end_transform = Some(calculate_end_on_circle(circle_radius[1], theta))]
    ELSE [h EXCEPT ![id].circle_radius = circle_radius,
                   ![id].end_transform = Some(Transformation(Vec(h[id].length, 0), Angle(0)))]

\* Domain.layout(circle_radius)
Domain_layout(h, id, circle_radius) ==
  IF Truthy(circle_radius)
    THEN LET theta == ArcTheta(h[id].length, circle_radius[1])
         IN  [h EXCEPT ![id].circle_radius = circle_radius,
                       ![id].circle_theta = Some(theta),
                       ![id].end_transform = Some(calculate_end_on_circle(circle_radius[1], theta))]
    ELSE [h EXCEPT ![id].circle_radius = circle_radius,
                   ![id].end_transform = Some(StraightEnd(h[id].length))]

\* A slip: a Gap on a circle records its angle and not the radius
Gap_layout_radius_unrecorded(h, id, circle_radius) ==
  IF Truthy(circle_radius)
    THEN LET theta == ArcTheta(h[id].length, circle_radius[1])
         IN  [h EXCEPT ![id].circle_theta = Some(theta),
                       ![id].end_transform = Some(calculate_end_on_circle(circle_radius[1], theta))]
    ELSE [h EXCEPT ![id].circle_radius = circle_radius,
                   ![id].end_transform = Some(StraightEnd(h[id].length))]

\* Gap.layout(circle_radius)
Gap_layout(h, id, circle_radius) ==
  IF Truthy(circle_radius)
    THEN LET theta == ArcTheta(h[id].length, circle_radius[1])
         IN  [h EXCEPT ![id].circle_radius = circle_radius,
                       ![id].circle_theta = Some(theta),
                       ![id].end_transform = Some(calculate_end_on_circle(circle_radius[1], theta))]
    ELSE [h EXCEPT ![id].circle_radius = circle_radius,
                   ![id].end_transform = Some(StraightEnd(h[id].length))]

\* Hairpin.layout / SplitComplex.layout, first four statements: pre and post
PlaceBound(h, id) ==
  LET pre == h[id].pre
      post == h[id].post
      h1 == Domain_layout(h, pre, None)
      h2 == [h1 EXCEPT ![pre].local_transform = Transformation(Vec(0, 0), Angle(0))]
      h3 == Domain_layout(h2, post, None)
  IN  [h3 EXCEPT ![post].local_transform =
                   Transformation(Vec(h3[id].gap, -h3[post].length), Angle(4))]

\* A slip: the inner chain's placement also tags the chain, as a SplitComplex tags its branches
Hairpin_place_inner_tagging(h, id) ==
  LET inner == h[id].inner
      inner_angle_error == AngAdd(Angle(4), AngNeg(PosAngle(h[inner].end_transform[1].translation)))
      h1 == [h EXCEPT ![inner].local_transform =
                        Transformation(Vec(0, -h[h[id].pre].length), AngAdd(Angle(4), inner_angle_error))]
  IN  set_as_end(h1, inner)

\* Hairpin.layout after inner.layout has returned: the inner chain's placement
Hairpin_place_inner(h, id) ==
  LET inner == h[id].inner
      inner_angle_error == AngAdd(Angle(4), AngNeg(PosAngle(h[inner].end_transform[1].translation)))
  IN  [h EXCEPT ![inner].local_transform =
                  Transformation(Vec(0, -h[h[id].pre].length), AngAdd(Angle(4), inner_angle_error))]

\* A slip: off a circle the Hairpin ends where its inner chain ends
Hairpin_end_of_inner(h, id, circle_radius) ==
  IF Truthy(circle_radius)
    THEN IF AsinDefined(h[id].gap, circle_radius[1])
           THEN Some(calculate_end_on_circle(circle_radius[1], ChordTheta(h[id].gap, circle_radius[1])))
           ELSE None
    ELSE Some(Compose(h[h[id].inner].local_transform, h[h[id].inner].end_transform[1]))

\* Hairpin.layout, last statement: the end_transform (None when math.asin raises ValueError)
Hairpin_end(h, id, circle_radius) ==
  IF Truthy(circle_radius)
    THEN IF AsinDefined(h[id].gap, circle_radius[1])
           THEN Some(calculate_end_on_circle(circle_radius[1], ChordTheta(h[id].gap, circle_radius[1])))
           ELSE None
    ELSE Some(Transformation(Vec(h[id].gap, 0), Angle(0)))

\* SplitComplex.layout, last statement: the end_transform (None when math.asin raises ValueError)
Split_end(h, id, circle_radius) ==
  IF Truthy(circle_radius)
    THEN IF AsinDefined(h[id].gap, circle_radius[1])
           THEN Some(calculate_end_on_circle(circle_radius[1], ChordTheta(h[id].gap, circle_radius[1])))
           ELSE None
    ELSE Some(Transformation(Vec(h[id].gap, 0), Angle(0)))

\* SplitComplex.layout: angle_from_forward, in eighth turns
angle_from_forward(h, id) == IF h[id].left # 0 /\ h[id].right # 0 THEN Angle(1) ELSE Angle(0)

\* A slip: pre is tagged as without a left branch
Split_place_left_tagging_pre(h, id) ==
  LET left == h[id].left
      h1 == [h EXCEPT ![left].local_transform =
                        Transformation(Vec(0, -h[h[id].pre].length), AngNeg(angle_from_forward(h, id)))]
  IN  set_as_end(h1, h[id].pre)

\* SplitComplex.layout after left.layout has returned
Split_place_left(h, id) ==
  LET left == h[id].left
      h1 == [h EXCEPT ![left].local_transform =
                        Transformation(Vec(0, -h[h[id].pre].length), AngNeg(angle_from_forward(h, id)))]
  IN  set_as_end(h1, left)

\* SplitComplex.layout after right.layout has returned
Split_place_right(h, id) ==
  LET right == h[id].right
      h1 == [h EXCEPT ![right].local_transform =
                        Compose(Transformation(Vec(h[id].gap, -h[h[id].post].length),
                                               angle_from_forward(h, id)),
                                Inverse(h[right].end_transform[1]))]
  IN  set_as_start(h1, right)

\* Chain.calculate_inner_radius
RECURSIVE SumStartToEnd(_, _, _)
SumStartToEnd(h, within, k) ==
  IF k > Len(within) THEN 0 ELSE start_to_end(h, within[k]) + SumStartToEnd(h, within, k + 1)

\* A slip: the hidden gap is always the default one
calculate_inner_radius_default_gap(h, id, hidden_gap) ==
  Radius(SumStartToEnd(h, h[id].within, 1) + DEFAULT_BOUND_GAP)

\* A slip: the children are left out of the circumference
calculate_inner_radius_hidden_gap_only(h, id, hidden_gap) ==
  Radius(hidden_gap)

\* circumference / (2 pi), the circumference being the sum over within and hidden_gap
calculate_inner_radius(h, id, hidden_gap) ==
  Radius(SumStartToEnd(h, h[id].within, 1) + hidden_gap)

\* A slip: a gap between two children when EITHER is not a Domain
check_needs_gap_either(h, id, i, omit_end_gap) ==
  LET within == h[id].within IN
  IF i = -1 THEN h[within[1]].kind # "Domain"
  ELSE IF i + 1 = Len(within) THEN h[within[i + 1]].kind # "Domain" /\ ~omit_end_gap
  ELSE h[within[i + 1]].kind # "Domain" \/ h[within[i + 2]].kind # "Domain"

\* A slip: omit_end_gap is not looked at
check_needs_gap_never_omitted(h, id, i, omit_end_gap) ==
  LET within == h[id].within IN
  IF i = -1 THEN h[within[1]].kind # "Domain"
  ELSE IF i + 1 = Len(within) THEN h[within[i + 1]].kind # "Domain"
  ELSE h[within[i + 1]].kind # "Domain" /\ h[within[i + 2]].kind # "Domain"

\* Chain.check_needs_gap(i, omit_end_gap); i counts from 0 as in the code
check_needs_gap(h, id, i, omit_end_gap) ==
  LET within == h[id].within IN
  IF i = -1 THEN h[within[1]].kind # "Domain"
  ELSE IF i + 1 = Len(within) THEN h[within[i + 1]].kind # "Domain" /\ ~omit_end_gap
  ELSE h[within[i + 1]].kind # "Domain" /\ h[within[i + 2]].kind # "Domain"

\* Chain.layout, the loop that builds new_within from child i on
RECURSIVE InsertGaps(_, _, _, _, _)
InsertGaps(h, id, i, new_within, omit_end_gap) ==
  IF i = Len(h[id].within) THEN [h EXCEPT ![id].within = new_within]
  ELSE LET w == Append(new_within, h[id].within[i + 1]) IN
       IF check_needs_gap(h, id, i, omit_end_gap)
         THEN InsertGaps(Append(h, NewGap(id)), id, i + 1, Append(w, Len(h) + 1), omit_end_gap)
         ELSE InsertGaps(h, id, i + 1, w, omit_end_gap)

\* A slip: a chain of one bound child is not made straight
Chain_prepare_no_override(h, id, f) ==
  LET within == h[id].within
      layout_circular == f.layout_circular
      g == IF layout_circular /\ Len(within) > 1
             THEN IF check_needs_gap(h, id, -1, FALSE)
                    THEN InsertGaps(Append(h, NewGap(id)), id, 0, <<Len(h) + 1>>, f.omit_end_gap)
                    ELSE InsertGaps(h, id, 0, <<>>, f.omit_end_gap)
             ELSE h
      inner_radius == IF ~layout_circular THEN None
                      ELSE Some(calculate_inner_radius(g, id, f.hidden_gap))
  IN  [heap |-> g,
       frame |-> [f EXCEPT !.pc = "loop", !.layout_circular = layout_circular,
                           !.inner_radius = inner_radius, !.cur_transform = Identity, !.i = 1]]

\* Chain.layout up to the placement loop: the override, the gaps, the radius
Chain_prepare(h, id, f) ==
  LET within == h[id].within
      layout_circular == IF Len(within) = 1 /\ needs_circle_fix(h, within[1])
                           THEN FALSE ELSE f.layout_circular
      g == IF layout_circular /\ Len(within) > 1
             THEN IF check_needs_gap(h, id, -1, FALSE)
                    THEN InsertGaps(Append(h, NewGap(id)), id, 0, <<Len(h) + 1>>, f.omit_end_gap)
                    ELSE InsertGaps(h, id, 0, <<>>, f.omit_end_gap)
             ELSE h
      inner_radius == IF ~layout_circular THEN None
                      ELSE Some(calculate_inner_radius(g, id, f.hidden_gap))
  IN  [heap |-> g,
       frame |-> [f EXCEPT !.pc = "loop", !.layout_circular = layout_circular,
                           !.inner_radius = inner_radius, !.cur_transform = Identity, !.i = 1]]

\* A slip: the child is placed where it ends, the running transform having
\* been advanced first
Chain_place_after_advance(h, node, cur_transform) ==
  LET angle_adjustment == IF needs_circle_fix(h, node)
                            THEN PosAngle(h[node].end_transform[1].translation)
                            ELSE Angle(0)
      advanced == Compose(cur_transform, h[node].end_transform[1])
  IN  [h EXCEPT ![node].local_transform =
                  Transformation(advanced.translation,
                                 AngAdd(advanced.rotation, angle_adjustment))]

\* Chain.layout, loop body after node.layout: the child's local_transform
Chain_place(h, node, cur_transform) ==
  LET angle_adjustment == IF needs_circle_fix(h, node)
                            THEN PosAngle(h[node].end_transform[1].translation)
                            ELSE Angle(0)
  IN  [h EXCEPT ![node].local_transform =
                  Transformation(cur_transform.translation,
                                 AngAdd(cur_transform.rotation, angle_adjustment))]

(***************************************************************************)
(* The call stack.  A frame is one active call node.layout(circle_radius, *)
(* layout_circular, hidden_gap, omit_end_gap) with its local variables.   *)
(***************************************************************************)
Frame(node, circle_radius, layout_circular, hidden_gap, omit_end_gap) ==
  [node |-> node, pc |-> "enter", circle_radius |-> circle_radius,
   layout_circular |-> layout_circular, hidden_gap |-> hidden_gap,
   omit_end_gap |-> omit_end_gap,
   i |-> 0, cur_transform |-> Identity, inner_radius |-> None]

Root == 1

Top == stack[Len(stack)]

Running(kind, pc) ==
  /\ phase = "layout"
  /\ stack # <<>>
  /\ nodes[Top.node].kind = kind
  /\ Top.pc = pc

\* the innermost call goes on at pc
Goto(pc) == [stack EXCEPT ![Len(stack)].pc = pc]

\* the innermost call makes the call f
Call(pc, f) == Append(Goto(pc), f)

\* what a caller reads off the tree to compare two layouts
Transforms(h) ==
  [id \in 1..Len(h) |->
     [end_transform |-> h[id].end_transform, local_transform |-> h[id].local_transform]]

\* the innermost call returns, leaving the heap h
Return(h) ==
  /\ nodes' = h
  /\ stack' = SubSeq(stack, 1, Len(stack) - 1)
  /\ IF Len(stack) = 1
       THEN /\ phase' = "laid"
            /\ layouts' = layouts + 1
            /\ snapshot' = IF layouts = 0 THEN Some(Transforms(h)) ELSE snapshot
       ELSE UNCHANGED <<phase, layouts, snapshot>>
  /\ UNCHANGED <<source, ops, result>>

\* the innermost call goes on, leaving the heap h
Step(h, st) ==
  /\ nodes' = h
  /\ stack' = st
  /\ UNCHANGED <<source, phase, layouts, snapshot, ops, result>>

\* an exception leaves layout: nothing runs after it
Raise ==
  /\ phase' = "raised"
  /\ UNCHANGED <<source, nodes, stack, layouts, snapshot, ops, result>>

\* layout_geometry, first statement
CreateGeometry ==
  /\ phase = "start"
  /\ \E node \in Sources :
       /\ source' = node
       /\ nodes' = create_geometry(<<>>, 0, node)
  /\ phase' = "created"
  /\ UNCHANGED <<stack, layouts, snapshot, ops, result>>

\* layout_geometry, first statement, handed a tree that holds a Clover: what
\* create_geometry raises leaves layout_geometry, and no tree is returned
CreateGeometryUnsupported ==
  /\ phase = "start"
  /\ \E node \in UnsupportedSources :
       LET h == create_geometry(<<>>, 0, node)
       IN  /\ source' = node
           /\ IF h = NotImplementedError
                THEN nodes' = <<>> /\ phase' = "raised"
                ELSE nodes' = h /\ phase' = "created"
  /\ UNCHANGED <<stack, layouts, snapshot, ops, result>>

\* the call layout_geometry makes; layout_circular has its default, True
RootCall == Frame(Root, None, TRUE, 2 * DEFAULT_BOUND_GAP, TRUE)

\* layout.layout(None, omit_end_gap=True, hidden_gap=2 * DEFAULT_BOUND_GAP)
CallLayout ==
  /\ phase = "created"
  /\ phase' = "layout"
  /\ stack' = <<RootCall>>
  /\ UNCHANGED <<source, nodes, layouts, snapshot, ops, result>>

\* the caller lays the returned tree out once more, with the same arguments
LayoutAgain ==
  /\ \/ phase = "tagged"
     \/ phase = "laid" /\ layouts > 1
  /\ layouts < MaxLayouts
  /\ phase' = "layout"
  /\ stack' = <<RootCall>>
  /\ UNCHANGED <<source, nodes, layouts, snapshot, ops, result>>

\* layout.set_as_start()
SetAsStart ==
  /\ phase = "laid" /\ layouts = 1
  /\ nodes' = set_as_start(nodes, Root)
  /\ phase' = "started"
  /\ UNCHANGED <<source, stack, layouts, snapshot, ops, result>>

\* A slip: set_as_start() called twice
SetAsEnd_as_start ==
  /\ phase = "started"
  /\ nodes' = set_as_start(nodes, Root)
  /\ phase' = "tagged"
  /\ UNCHANGED <<source, stack, layouts, snapshot, ops, result>>

\* layout.set_as_end(); the caller has its tree
SetAsEnd ==
  /\ phase = "started"
  /\ nodes' = set_as_end(nodes, Root)
  /\ phase' = "tagged"
  /\ UNCHANGED <<source, stack, layouts, snapshot, ops, result>>

\* Domain.layout called by layout_geometry: the root is a Domain
DomainLayout ==
  /\ Running("Domain", "enter")
  /\ Return(Domain_layout(nodes, Top.node, Top.circle_radius))

\* Hairpin.layout up to and including the call self.inner.layout(None, layout_circular=True)
HairpinEnter ==
  /\ Running("Hairpin", "enter")
  /\ Step(PlaceBound(nodes, Top.node),
          Call("inner", Frame(nodes[Top.node].inner, None, TRUE, DEFAULT_BOUND_GAP, FALSE)))

\* Hairpin.layout from the return of inner.layout to its own return
HairpinFinish ==
  /\ Running("Hairpin", "inner")
  /\ LET id == Top.node
         h == Hairpin_place_inner(nodes, id)
         end == Hairpin_end(h, id, Top.circle_radius)
     IN  IF end = None
           THEN Raise
           ELSE Return([h EXCEPT ![id].end_transform = end])

\* SplitComplex.layout up to the left branch: its layout call, or pre.set_as_end()
SplitEnter ==
  /\ Running("SplitComplex", "enter")
  /\ LET id == Top.node
         h == PlaceBound(nodes, id)
     IN  IF h[id].left # 0
           THEN Step(h, Call("left", Frame(h[id].left, None, FALSE, DEFAULT_BOUND_GAP, FALSE)))
           ELSE Step(set_as_end(h, h[id].pre), Goto("right"))

\* SplitComplex.layout: the left branch has been laid out
SplitLeftDone ==
  /\ Running("SplitComplex", "left")
  /\ Step(Split_place_left(nodes, Top.node), Goto("right"))

\* SplitComplex.layout at the right branch: its layout call, or post.set_as_start()
SplitRight ==
  /\ Running("SplitComplex", "right")
  /\ LET id == Top.node
     IN  IF nodes[id].right # 0
           THEN Step(nodes, Call("right_done", Frame(nodes[id].right, None, FALSE, DEFAULT_BOUND_GAP, FALSE)))
           ELSE Step(set_as_start(nodes, nodes[id].post), Goto("end"))

\* SplitComplex.layout: the right branch has been laid out
SplitRightDone ==
  /\ Running("SplitComplex", "right_done")
  /\ Step(Split_place_right(nodes, Top.node), Goto("end"))

\* SplitComplex.layout, the end_transform and the return
SplitFinish ==
  /\ Running("SplitComplex", "end")
  /\ LET id == Top.node
         end == Split_end(nodes, id, Top.circle_radius)
     IN  IF end = None
           THEN Raise
           ELSE Return([nodes EXCEPT ![id].end_transform = end])

\* Chain.layout up to the placement loop
ChainEnter ==
  /\ Running("Chain", "enter")
  /\ LET r == Chain_prepare(nodes, Top.node, Top)
     IN  Step(r.heap, [stack EXCEPT ![Len(stack)] = r.frame])

\* Chain.layout, one turn of the loop for a child that is a Domain or a Gap:
\* node.layout(inner_radius), which calls nothing, then the placement
ChainLayoutLeaf ==
  /\ Running("Chain", "loop")
  /\ Top.i <= Len(nodes[Top.node].within)
  /\ LET node == nodes[Top.node].within[Top.i]
     IN  /\ nodes[node].kind \in {"Domain", "Gap"}
         /\ LET h == IF nodes[node].kind = "Gap"
                       THEN Gap_layout(nodes, node, Top.inner_radius)
                       ELSE Domain_layout(nodes, node, Top.inner_radius)
            IN  Step(Chain_place(h, node, Top.cur_transform),
                     [stack EXCEPT ![Len(stack)] =
                        [Top EXCEPT !.i = @ + 1,
                                    !.cur_transform = Compose(@, h[node].end_transform[1])]])

\* Chain.layout, loop: node.layout(inner_radius) for a Hairpin or SplitComplex
ChainCallChild ==
  /\ Running("Chain", "loop")
  /\ Top.i <= Len(nodes[Top.node].within)
  /\ nodes[nodes[Top.node].within[Top.i]].kind \notin {"Domain", "Gap"}
  /\ Step(nodes, Call("placing",
                      Frame(nodes[Top.node].within[Top.i], Top.inner_radius, TRUE, DEFAULT_BOUND_GAP, FALSE)))

\* Chain.layout, loop: the child has been laid out; place it and advance
ChainPlaceChild ==
  /\ Running("Chain", "placing")
  /\ LET node == nodes[Top.node].within[Top.i]
     IN  Step(Chain_place(nodes, node, Top.cur_transform),
              [stack EXCEPT ![Len(stack)] =
                 [Top EXCEPT !.pc = "loop", !.i = @ + 1,
                             !.cur_transform = Compose(@, nodes[node].end_transform[1])]])

\* Chain.layout, after the loop: self.end_transform = cur_transform
ChainFinish ==
  /\ Running("Chain", "loop")
  /\ Top.i > Len(nodes[Top.node].within)
  /\ Return([nodes EXCEPT ![Top.node].end_transform = Some(Top.cur_transform)])

Init ==
  /\ source = None
  /\ nodes = <<>>
  /\ stack = <<>>
  /\ phase = "start"
  /\ layouts = 0
  /\ snapshot = None
  /\ ops = <<>>
  /\ result = None

Next ==
  \/ CreateGeometry
  \/ CreateGeometryUnsupported
  \/ CallLayout
  \/ LayoutAgain
  \/ SetAsStart
  \/ SetAsEnd
  \/ DomainLayout
  \/ HairpinEnter
  \/ HairpinFinish
  \/ SplitEnter
  \/ SplitLeftDone
  \/ SplitRight
  \/ SplitRightDone
  \/ SplitFinish
  \/ ChainEnter
  \/ ChainLayoutLeaf
  \/ ChainCallChild
  \/ ChainPlaceChild
  \/ ChainFinish

Spec == Init /\ [][Next]_vars

\* layout_geometry called once on a well-formed tree: every step but the
\* caller's further layout and the failure to build the tree
NextOnce ==
  \/ CreateGeometry
  \/ CallLayout
  \/ SetAsStart
  \/ SetAsEnd
  \/ DomainLayout
  \/ HairpinEnter
  \/ HairpinFinish
  \/ SplitEnter
  \/ SplitLeftDone
  \/ SplitRight
  \/ SplitRightDone
  \/ SplitFinish
  \/ ChainEnter
  \/ ChainLayoutLeaf
  \/ ChainCallChild
  \/ ChainPlaceChild
  \/ ChainFinish

\* The program is sequential: the step that is enabled is taken
LiveSpec == Init /\ [][NextOnce]_vars /\ WF_vars(NextOnce)

(***************************************************************************)
(* The Transformation algebra on its own: operands with whole coordinates *)
(* and quarter-turn rotations, where Compose and Inverse are computed     *)
(* exactly.                                                                *)
(***************************************************************************)
Operands ==
  {Transformation(Vec(x, y), Angle(2 * q)) :
     x \in -MaxCoord..MaxCoord, y \in -MaxCoord..MaxCoord, q \in -1..2}

NoResult == [op |-> "", left |-> Identity, right |-> Identity]

\* (A + B) + C and A + (B + C)
AddThree ==
  /\ phase = "algebra"
  /\ result' = [op |-> "associate",
                left |-> Compose(Compose(ops[1], ops[2]), ops[3]),
                right |-> Compose(ops[1], Compose(ops[2], ops[3]))]
  /\ UNCHANGED <<source, nodes, stack, phase, layouts, snapshot, ops>>

\* A + A.inverse()
AddInverse ==
  /\ phase = "algebra"
  /\ result' = [op |-> "inverse",
                left |-> Compose(ops[1], Inverse(ops[1])),
                right |-> Inverse(ops[1])]
  /\ UNCHANGED <<source, nodes, stack, phase, layouts, snapshot, ops>>

InitAlgebra ==
  /\ ops \in Operands \X Operands \X Operands
  /\ result = NoResult
  /\ phase = "algebra"
  /\ source = cDomain
  /\ nodes = <<>>
  /\ stack = <<>>
  /\ layouts = 0
  /\ snapshot = None

NextAlgebra == AddThree \/ AddInverse

SpecAlgebra == InitAlgebra /\ [][NextAlgebra]_vars

(***************************************************************************)
(* The tokeniser (lex.py).  Text is a sequence of one-character strings.   *)
(* ply tries its string rules longest pattern first, so the master         *)
(* pattern is LABEL_OPEN | LABEL | RPAREN | PLUS, the first alternative    *)
(* that matches at the position winning.                                   *)
(***************************************************************************)
\* [a-zA-Z_] and [a-zA-Z_0-9], one letter and one digit standing for each class
LabelStart == {"a"}
LabelChar == {"a", "1"}

\* the characters of the inputs; "*" is in no rule
Chars == {"a", "1", "(", ")", "+", " ", "\t", "*"}

Texts == UNION {[1..n -> Chars] : n \in 0..MaxChars}

\* A slip: the tab is left out of the ignored characters
t_ignore_space_only == {" "}

\* t_ignore = ' \t'
t_ignore == {" ", "\t"}

RECURSIVE LabelEnd(_, _)

\* [a-zA-Z_0-9]* is greedy: the last position of the run of label characters
\* that holds pos
LabelEnd(data, pos) ==
  IF pos < Len(data) /\ data[pos + 1] \in LabelChar THEN LabelEnd(data, pos + 1) ELSE pos

Token(type, data, from, to) == [type |-> type, value |-> SubSeq(data, from, to)]

\* the master pattern matched at pos: <<token>>, or <<>> when no rule matches
MatchAt(data, pos) ==
  IF data[pos] \in LabelStart
    THEN LET e == LabelEnd(data, pos)
         IN  IF e < Len(data) /\ data[e + 1] = "("
               THEN <<Token("LABEL_OPEN", data, pos, e + 1)>>
               ELSE <<Token("LABEL", data, pos, e)>>
  ELSE IF data[pos] = ")" THEN <<Token("RPAREN", data, pos, pos)>>
  ELSE IF data[pos] = "+" THEN <<Token("PLUS", data, pos, pos)>>
  ELSE <<>>

RECURSIVE Lex(_, _, _)

\* the lexer's loop from lexpos on; t_error raises ValueError('Illegal
\* character c'), and list(lexer) then returns nothing
Lex(data, lexpos, toks) ==
  IF lexpos > Len(data) THEN [raised |-> None, tokens |-> toks]
  ELSE IF data[lexpos] \in t_ignore THEN Lex(data, lexpos + 1, toks)
  ELSE LET m == MatchAt(data, lexpos)
       IN  IF m = <<>>
             THEN [raised |-> Some(<<"Illegal character", data[lexpos]>>), tokens |-> <<>>]
             ELSE Lex(data, lexpos + Len(m[1].value), Append(toks, m[1]))

\* tokenise(data): lexer.input(data); list(lexer)
tokenise(data) == Lex(data, 1, <<>>)

\* data with the character c put in before position k
Spaced(data, k, c) == SubSeq(data, 1, k - 1) \o <<c>> \o SubSeq(data, k, Len(data))

\* a space or tab may go in before position k: after "(", or next to ")" or "+"
SpacingPlace(data, k) ==
  \/ k > 1 /\ data[k - 1] \in {"(", ")", "+"}
  \/ k <= Len(data) /\ data[k] \in {")", "+"}

NoTokens == [op |-> "", data |-> <<>>, left |-> tokenise(<<>>), right |-> tokenise(<<>>)]

\* tokenise(ops)
Tokenise ==
  /\ phase = "lex"
  /\ result' = [op |-> "tokenise", data |-> ops, left |-> tokenise(ops), right |-> tokenise(ops)]
  /\ UNCHANGED <<source, nodes, stack, phase, layouts, snapshot, ops>>

\* tokenise(ops) and tokenise of ops with one more space or tab
\* (lex_test.py, test_erratic_whitespace)
TokeniseSpaced ==
  /\ phase = "lex"
  /\ \E k \in 1..(Len(ops) + 1), c \in {" ", "\t"} :
       /\ SpacingPlace(ops, k)
       /\ result' = [op |-> "spaced", data |-> Spaced(ops, k, c),
                     left |-> tokenise(ops), right |-> tokenise(Spaced(ops, k, c))]
  /\ UNCHANGED <<source, nodes, stack, phase, layouts, snapshot, ops>>

InitLex ==
  /\ ops \in Texts
  /\ result = NoTokens
  /\ phase = "lex"
  /\ source = cDomain
  /\ nodes = <<>>
  /\ stack = <<>>
  /\ layouts = 0
  /\ snapshot = None

NextLex == Tokenise \/ TokeniseSpaced

SpecLex == InitLex /\ [][NextLex]_vars

(***************************************************************************)
(* The parser (parse.py).  A notation is the sequence of the tokens that   *)
(* notation.str_split(' ') yields; every domain is named a.                   *)
(***************************************************************************)
RECURSIVE Str(_), JoinStr(_, _)

\* ' '.join(str(el) for el in within)
JoinStr(within, k) == IF k = 0 THEN <<>> ELSE JoinStr(within, k - 1) \o Str(within[k])

\* __str__ of the classes of complex.py
Str(node) ==
  CASE node.type = "Domain" -> <<"a">>
    [] node.type = "Hairpin" -> <<"a(">> \o Str(node.inner[1]) \o <<")">>
    [] node.type = "SplitComplex" ->
         <<"a(">> \o (IF node.left # None THEN Str(node.left[1]) ELSE <<>>)
                 \o <<"+">>
                 \o (IF node.right # None THEN Str(node.right[1]) ELSE <<>>)
                 \o <<")">>
    [] node.type = "Chain" -> JoinStr(node.within, Len(node.within))

\* the token strings of the inputs
TokenStrings == {"a", "a(", ")", "+"}

Notations == UNION {[1..n -> TokenStrings] : n \in 1..MaxTokens}

\* the names the module complex defines
ComplexNames == {"Domain", "Hairpin", "SplitComplex", "Clover", "Chain", "create_complementary"}

\* parse(notation).  The def statement evaluates its return annotation,
\* complex.Complex, and the body opens with result = complex.Complex([]): the
\* lookup of Complex in complex raises AttributeError, for the caller that
\* imports parse to call it as for the call itself.  The loop over the
\* tokens, which would fill a Complex with Strands, is never entered.
parse(notation) ==
  IF "Complex" \in ComplexNames /\ "Strand" \in ComplexNames
    THEN [raised |-> None, tree |-> Some([type |-> "Complex", strands |-> <<>>])]
    ELSE [raised |-> Some("AttributeError"), tree |-> None]

NoParse == [op |-> "", raised |-> None, tree |-> None]

\* parse(str(tree)) for a tree of complex.py
ParseWritten ==
  /\ phase = "parse" /\ result = NoParse
  /\ \E tree \in Sources :
       /\ source' = tree
       /\ ops' = Str(tree)
       /\ result' = [op |-> "parse", raised |-> parse(Str(tree)).raised, tree |-> parse(Str(tree)).tree]
  /\ UNCHANGED <<nodes, stack, phase, layouts, snapshot>>

\* parse(notation) for any tokens (parse_test.py, test_parse_raises)
ParseNotation ==
  /\ phase = "parse" /\ result = NoParse
  /\ \E notation \in Notations :
       /\ source' = None
       /\ ops' = notation
       /\ result' = [op |-> "parse", raised |-> parse(notation).raised, tree |-> parse(notation).tree]
  /\ UNCHANGED <<nodes, stack, phase, layouts, snapshot>>

InitParse ==
  /\ ops = <<>>
  /\ result = NoParse
  /\ phase = "parse"
  /\ source = None
  /\ nodes = <<>>
  /\ stack = <<>>
  /\ layouts = 0
  /\ snapshot = None

NextParse == ParseWritten \/ ParseNotation

SpecParse == InitParse /\ [][NextParse]_vars

(***************************************************************************)
(* The parser handed a text, as web_demo.run hands tokenise and then parse  *)
(* the same input.                                                         *)
(***************************************************************************)
RECURSIVE str_split(_, _, _)

\* notation.str_split(' '): the pieces between single spaces, empty ones included;
\* piece is the piece that position k goes on
str_split(data, k, piece) ==
  IF k > Len(data) THEN <<piece>>
  ELSE IF data[k] = " " THEN <<piece>> \o str_split(data, k + 1, <<>>)
  ELSE str_split(data, k + 1, Append(piece, data[k]))

\* parse_token(token); token[-1] of an empty piece raises IndexError
parse_token(token) ==
  IF token = <<")">> THEN [raised |-> None, type |-> "DOMAIN_CLOSE", name |-> <<>>]
  ELSE IF token = <<"+">> THEN [raised |-> None, type |-> "NEW_STRAND", name |-> <<>>]
  ELSE IF token = <<>> THEN [raised |-> Some("IndexError"), type |-> "", name |-> <<>>]
  ELSE IF token[Len(token)] = "("
    THEN [raised |-> None, type |-> "DOMAIN_OPEN", name |-> SubSeq(token, 1, Len(token) - 1)]
  ELSE [raised |-> None, type |-> "DOMAIN_UNBOUND", name |-> token]

\* the loop header of parse: parse_token of each piece of notation.str_split(' ')
parse_tokens(data) ==
  LET pieces == str_split(data, 1, <<>>)
  IN  [k \in 1..Len(pieces) |-> parse_token(pieces[k])]

\* parse(data) for a text: what it raises or returns, and the tokens it has
\* read by then: none, the AttributeError coming before the loop
parse_text(data) ==
  LET p == parse(str_split(data, 1, <<>>))
  IN  [raised |-> p.raised, tree |-> p.tree,
       read |-> IF p.raised # None THEN <<>> ELSE parse_tokens(data)]

NoRun ==
  [op |-> "", data |-> <<>>, tokens |-> tokenise(<<>>),
   parsed |-> parse_text(<<>>), respaced |-> parse_text(<<>>), loop |-> <<>>]

\* web_demo.run: lex.tokenise(input_text), then parse.parse(input_text); loop
\* is what the loop header of parse makes of the text
Run ==
  /\ phase = "run" /\ result = NoRun
  /\ result' = [op |-> "run", data |-> ops, tokens |-> tokenise(ops),
                parsed |-> parse_text(ops), respaced |-> parse_text(ops),
                loop |-> parse_tokens(ops)]
  /\ UNCHANGED <<source, nodes, stack, phase, layouts, snapshot, ops>>

\* parse of ops and of ops with one more space or tab where the tokeniser
\* ignores it: after "(", next to ")" or "+", or next to a space or tab
RunRespaced ==
  /\ phase = "run" /\ result = NoRun
  /\ \E k \in 1..(Len(ops) + 1), c \in t_ignore :
       /\ \/ SpacingPlace(ops, k)
          \/ k <= Len(ops) /\ ops[k] \in t_ignore
          \/ k > 1 /\ ops[k - 1] \in t_ignore
       /\ result' = [op |-> "respaced", data |-> Spaced(ops, k, c), tokens |-> tokenise(ops),
                     parsed |-> parse_text(ops), respaced |-> parse_text(Spaced(ops, k, c)),
                     loop |-> parse_tokens(Spaced(ops, k, c))]
  /\ UNCHANGED <<source, nodes, stack, phase, layouts, snapshot, ops>>

InitRun ==
  /\ ops \in Texts
  /\ result = NoRun
  /\ phase = "run"
  /\ source = None
  /\ nodes = <<>>
  /\ stack = <<>>
  /\ layouts = 0
  /\ snapshot = None

NextRun == Run \/ RunRespaced

SpecRun == InitRun /\ [][NextRun]_vars

(***************************************************************************)
(* Properties                                                              *)
(***************************************************************************)
Kind(id) == nodes[id].kind

Bound(id) == Kind(id) \in {"Hairpin", "SplitComplex"}

LaidOut(id) == nodes[id].end_transform # None

OffCircleEnd == Some(Transformation(Vec(DEFAULT_BOUND_GAP, 0), Angle(0)))

\* C1: a second call of layout with the same arguments leaves every node of the
\* tree with the end_transform and the local_transform the first call gave it.
\* (Where the check fails the chain has more Gaps after the second call, so a
\* larger radius, and length / radius of each of its Domains and Gaps differs.)
C1_SecondLayoutSameTransforms ==
  (layouts = 2 /\ phase = "laid") =>
    \A id \in 1..Len(snapshot[1]) :
      /\ nodes[id].end_transform = snapshot[1][id].end_transform
      /\ nodes[id].local_transform = snapshot[1][id].local_transform

\* the place of child x in the child list w
PlaceIn(w, x) == CHOOSE k \in 1..Len(w) : w[k] = x

\* C2: when Chain.layout lays a chain of more than one child out circularly, the
\* new child list is the old one with Gaps put in; exactly one Gap lies between
\* two adjacent old children that are both a Hairpin or SplitComplex, and no Gap
\* put in has a Domain as a neighbour.
C2_OneGapBetweenBoundPairs ==
  [][(Running("Chain", "enter") /\ stack'[Len(stack)].layout_circular
        /\ Len(nodes[Top.node].within) > 1) =>
       LET old == nodes[Top.node].within
           new == nodes'[Top.node].within
           Fresh(x) == x > Len(nodes)
       IN  /\ SelectSeq(new, LAMBDA x : ~Fresh(x)) = old
           /\ \A k \in 1..Len(new) : Fresh(new[k]) => nodes'[new[k]].kind = "Gap"
           /\ \A i \in 1..(Len(old) - 1) :
                (Bound(old[i]) /\ Bound(old[i + 1])) =>
                  PlaceIn(new, old[i + 1]) - PlaceIn(new, old[i]) = 2
           /\ \A k \in 1..Len(new) :
                Fresh(new[k]) =>
                  /\ k > 1 => nodes'[new[k - 1]].kind # "Domain"
                  /\ k < Len(new) => nodes'[new[k + 1]].kind # "Domain"]_vars

\* C2 witness: a circular chain, gaps just inserted by the first layout, holds a
\* Domain and two bound children with one Gap between them
C2_Witness ==
  /\ layouts = 0
  /\ \E f \in 1..Len(stack) :
       /\ Kind(stack[f].node) = "Chain" /\ stack[f].pc = "loop" /\ stack[f].layout_circular
       /\ LET w == nodes[stack[f].node].within
          IN  /\ \E j \in 1..(Len(w) - 2) :
                   Bound(w[j]) /\ Kind(w[j + 1]) = "Gap" /\ Bound(w[j + 2])
              /\ \E j \in 1..Len(w) : Kind(w[j]) = "Domain"

\* C3: once SplitComplex.layout has run, with both branches the left chain's
\* local_transform has rotation -45 degrees and the right chain's +45 degrees;
\* with one branch only, that chain's local_transform has rotation 0.
C3_BranchRotations ==
  \A id \in 1..Len(nodes) :
    (Kind(id) = "SplitComplex" /\ LaidOut(id)) =>
      LET left == nodes[id].left
          right == nodes[id].right
      IN  /\ (left # 0 /\ right # 0) =>
               /\ nodes[left].local_transform.rotation = Angle(-1)
               /\ nodes[right].local_transform.rotation = Angle(1)
          /\ (left # 0 /\ right = 0) => nodes[left].local_transform.rotation = Angle(0)
          /\ (left = 0 /\ right # 0) => nodes[right].local_transform.rotation = Angle(0)

\* a laid-out chain of three Domains, each laid out with no radius
StraightChainOfThree(id) ==
  /\ Kind(id) = "Chain" /\ LaidOut(id)
  /\ Len(nodes[id].within) = 3
  /\ \A k \in 1..3 :
       LET c == nodes[id].within[k]
       IN  Kind(c) = "Domain" /\ LaidOut(c) /\ nodes[c].circle_radius = None

\* C4: in a chain of three Domains laid out straight, the running transform is
\* further from the start after each child, and the end_transform's translation
\* has norm 3 x the domain length.
C4_StraightChainLength ==
  \A id \in 1..Len(nodes) :
    StraightChainOfThree(id) =>
      LET w == nodes[id].within
          after1 == nodes[w[2]].local_transform.translation
          after2 == nodes[w[3]].local_transform.translation
          after3 == nodes[id].end_transform[1].translation
      IN  /\ 0 < NormSq(after1)
          /\ NormSq(after1) < NormSq(after2)
          /\ NormSq(after2) < NormSq(after3)
          /\ NormSq(after3) = (3 * DEFAULT_DOMAIN_LENGTH) * (3 * DEFAULT_DOMAIN_LENGTH)

\* C5: Hairpin.layout called with no circle radius leaves the Hairpin's
\* end_transform at translation (gap, 0), rotation 0, whatever its inner chain.
C5_HairpinOffCircleEnd ==
  [][(Running("Hairpin", "inner") /\ Top.circle_radius = None) =>
       nodes'[Top.node].end_transform = OffCircleEnd]_vars

\* C5 witness: the root is a laid-out Hairpin (laid out with no radius) whose
\* inner chain has several children, a Hairpin or SplitComplex among them
C5_Witness ==
  /\ Len(nodes) > 0 /\ Kind(Root) = "Hairpin"
  /\ nodes[Root].end_transform = OffCircleEnd
  /\ LET w == nodes[nodes[Root].inner].within
     IN  Len(w) > 1 /\ \E j \in 1..Len(w) : Bound(w[j])

\* C6: (A + B) + C = A + (B + C), in translation and in rotation.
C6_AddAssociative ==
  result.op = "associate" =>
    /\ result.left.translation = result.right.translation
    /\ result.left.rotation = result.right.rotation

\* C6 witness: both sums computed for three operands that all turn and all move
C6_Witness ==
  /\ result.op = "associate"
  /\ \A k \in 1..3 : ops[k].rotation # Angle(0) /\ ops[k].translation # Vec(0, 0)
  /\ result.left = result.right
  /\ result.left # Identity

\* C7: T + T.inverse() is the identity: translation (0, 0), rotation 0.
C7_AddInverseIsIdentity ==
  result.op = "inverse" =>
    /\ result.left.translation = Vec(0, 0)
    /\ result.left.rotation = Angle(0)

\* C7 witness: the sum computed for a T that turns and moves off both axes
C7_Witness ==
  /\ result.op = "inverse"
  /\ ops[1].rotation = Angle(2) /\ ops[1].translation = Vec(1, -1)
  /\ result.right = Transformation(Vec(1, 1), Angle(-2))
  /\ result.left = Identity

\* C8: layout_geometry on a single Domain returns a tree of one node, a Domain,
\* tagged both is_start and is_end.
C8_SingleDomain ==
  (source = cDomain /\ phase = "tagged") =>
    /\ Len(nodes) = 1
    /\ Kind(Root) = "Domain"
    /\ nodes[Root].is_start /\ nodes[Root].is_end

\* C8 witness: layout_geometry has returned the tree of a single Domain
C8_Witness ==
  /\ source = cDomain /\ phase = "tagged"
  /\ Len(nodes) = 1 /\ nodes[Root].is_start /\ nodes[Root].is_end
  /\ layouts = 1

AllLaidOut == \A id \in 1..Len(nodes) : LaidOut(id)

\* C9: layout_geometry on a well-formed tree returns, and when it does every
\* node of the layout tree, inserted Gaps included, has an end_transform.
C9_TerminatesAllLaidOut ==
  <>(phase = "tagged" /\ layouts = 1 /\ AllLaidOut)

\* C9 witness: layout_geometry has returned a tree that holds a Hairpin, a
\* SplitComplex with a branch, and an inserted Gap, all with an end_transform
C9_Witness ==
  /\ phase = "tagged" /\ layouts = 1
  /\ AllLaidOut
  /\ \E id \in 1..Len(nodes) : Kind(id) = "Gap"
  /\ \E id \in 1..Len(nodes) : Kind(id) = "Hairpin"
  /\ \E id \in 1..Len(nodes) : Kind(id) = "SplitComplex" /\ nodes[id].left # 0

\* every node of h has in g the flags it has in h
SameFlags(h, g) ==
  \A id \in 1..Len(h) : g[id].is_start = h[id].is_start /\ g[id].is_end = h[id].is_end

\* the tree without its flags
Untagged(h) == [id \in 1..Len(h) |-> [h[id] EXCEPT !.is_start = FALSE, !.is_end = FALSE]]

\* a step of the final set_as_start() / set_as_end() pass
TaggingStep == phase \in {"laid", "started"} /\ phase' \in {"started", "tagged"}

\* C10 as stated: no step of a layout routine changes a node's is_start or
\* is_end, and the tagging pass changes nothing but those flags.
C10_FlagsOnlyInFinalPass ==
  [][/\ phase = "layout" => SameFlags(nodes, nodes')
     /\ TaggingStep => Untagged(nodes') = Untagged(nodes)]_vars

\* C10 amended: a step of a layout routine that changes a node's is_start or
\* is_end is a step of SplitComplex.layout, and the tagging pass changes
\* nothing but those flags.
C10_FlagsOnlyBySplitOrFinalPass ==
  [][/\ (phase = "layout" /\ ~SameFlags(nodes, nodes')) => Kind(Top.node) = "SplitComplex"
     /\ TaggingStep => Untagged(nodes') = Untagged(nodes)]_vars

\* C10 witness: the first layout is still running inside a Hairpin's inner chain
\* and a SplitComplex in it has already tagged a leaf
C10_Witness ==
  /\ phase = "layout" /\ layouts = 0
  /\ \E f \in 1..Len(stack) : Kind(stack[f].node) = "Hairpin"
  /\ \E id \in 1..Len(nodes) : nodes[id].is_end

RECURSIVE CloverInChain(_)

\* node is a Clover, or holds one as a child of a Chain at some depth
CloverInChain(node) ==
  \/ node.type = "Clover"
  \/ node.type = "Chain" /\ \E k \in 1..Len(node.within) : CloverInChain(node.within[k])
  \/ node.type = "Hairpin" /\ CloverInChain(node.inner[1])
  \/ node.type = "SplitComplex" /\ \E b \in {node.left, node.right} : b # None /\ CloverInChain(b[1])

Types(toks) == [k \in 1..Len(toks) |-> toks[k].type]

RECURSIVE Values(_, _)

\* the token values one after the other
Values(toks, k) == IF k = 0 THEN <<>> ELSE Values(toks, k - 1) \o toks[k].value

\* data without its spaces and tabs
Unspaced(data) == SelectSeq(data, LAMBDA c : c \notin {" ", "\t"})

Count(data, c) == Cardinality({k \in 1..Len(data) : data[k] = c})

CountType(toks, type) == Cardinality({k \in 1..Len(toks) : toks[k].type = type})

\* position k holds a character that belongs to no token: one in no rule, a
\* digit that starts a word, or a "(" that no label runs up to
IllegalAt(data, k) ==
  \/ data[k] \notin (LabelChar \cup {"(", ")", "+", " ", "\t"})
  \/ data[k] \in (LabelChar \ LabelStart) \cup {"("} /\ (k = 1 \/ data[k - 1] \notin LabelChar)

\* C14: one more space or tab after "(" or next to ")" or "+" changes neither
\* the token types nor whether ValueError is raised; a label that runs up to
\* "(" is one LABEL_OPEN whose value ends with the "(", any other label a
\* LABEL, ")" an RPAREN, "+" a PLUS, the tokens hold every character but
\* spaces and tabs, and any other character raises 'Illegal character'
C14_TokenTypes ==
  /\ result.op = "spaced" =>
       /\ Types(result.left.tokens) = Types(result.right.tokens)
       /\ (result.left.raised = None) = (result.right.raised = None)
  /\ result.op = "tokenise" =>
       LET data == result.data
           toks == result.left.tokens
       IN  /\ (result.left.raised # None) = (\E k \in 1..Len(data) : IllegalAt(data, k))
           /\ result.left.raised # None =>
                /\ result.left.raised[1][1] = "Illegal character"
                /\ \E k \in 1..Len(data) : IllegalAt(data, k) /\ result.left.raised[1][2] = data[k]
           /\ result.left.raised = None =>
                /\ Values(toks, Len(toks)) = Unspaced(data)
                /\ CountType(toks, "LABEL_OPEN") = Count(data, "(")
                /\ CountType(toks, "RPAREN") = Count(data, ")")
                /\ CountType(toks, "PLUS") = Count(data, "+")
                /\ \A k \in 1..Len(toks) :
                     LET v == toks[k].value
                     IN  CASE toks[k].type = "LABEL_OPEN" ->
                                /\ v[Len(v)] = "(" /\ v[1] \in LabelStart
                                /\ \A j \in 1..(Len(v) - 1) : v[j] \in LabelChar
                           [] toks[k].type = "LABEL" ->
                                v[1] \in LabelStart /\ \A j \in 1..Len(v) : v[j] \in LabelChar
                           [] toks[k].type = "RPAREN" -> v = <<")">>
                           [] toks[k].type = "PLUS" -> v = <<"+">>

\* C14 witness: "a(+)" with a tab put in after the "(" gives LABEL_OPEN, PLUS,
\* RPAREN both ways
C14_Witness ==
  /\ result.op = "spaced"
  /\ ops = <<"a", "(", "+", ")">>
  /\ result.data = <<"a", "(", "\t", "+", ")">>
  /\ Types(result.right.tokens) = <<"LABEL_OPEN", "PLUS", "RPAREN">>
  /\ result.left = result.right

\* what parse is to return for the notation of tree: a lone element unwrapped
Unwrapped(tree) ==
  IF tree.type = "Chain" /\ Len(tree.within) = 1 THEN tree.within[1] ELSE tree

\* C12: parse of the notation of a well-formed tree returns that tree, a Hairpin
\* for a pair without "+", a SplitComplex for a pair with one, a lone
\* top-level element unwrapped and several as a Chain in input order
C12_ParseReturnsTree ==
  (result.op = "parse" /\ source # None) =>
    (result.raised = None /\ result.tree = Some(Unwrapped(source)))

RECURSIVE Malformed(_, _, _)

\* Reading notation from token k with pluses[d] the "+" seen directly inside
\* the d-th open pair: a ")" with no open pair, a "+" outside every pair, a
\* second "+" in one pair, or a pair left open at the end
Malformed(notation, k, pluses) ==
  IF k > Len(notation) THEN pluses # <<>>
  ELSE CASE notation[k] = "a(" -> Malformed(notation, k + 1, Append(pluses, 0))
         [] notation[k] = "a" -> Malformed(notation, k + 1, pluses)
         [] notation[k] = ")" ->
              pluses = <<>> \/ Malformed(notation, k + 1, SubSeq(pluses, 1, Len(pluses) - 1))
         [] notation[k] = "+" ->
              \/ pluses = <<>>
              \/ pluses[Len(pluses)] = 1
              \/ Malformed(notation, k + 1, [pluses EXCEPT ![Len(pluses)] = 1])

\* C13: parse of a malformed notation raises ValueError
C13_ParseRaisesValueError ==
  (result.op = "parse" /\ Malformed(ops, 1, <<>>)) => result.raised = Some("ValueError")

\* this step runs Domain.layout on node id with no radius: the root Domain
\* called with None, the pre or post of a Hairpin or SplitComplex, or the
\* child a Chain laid out straight has come to
StraightDomainLayout(id) ==
  /\ phase = "layout" /\ stack # <<>>
  /\ Kind(id) = "Domain"
  /\ \/ Top.node = id /\ Top.pc = "enter" /\ Top.circle_radius = None
     \/ /\ Bound(Top.node) /\ Top.pc = "enter"
        /\ id \in {nodes[Top.node].pre, nodes[Top.node].post}
     \/ /\ Kind(Top.node) = "Chain" /\ Top.pc = "loop"
        /\ Top.i <= Len(nodes[Top.node].within)
        /\ nodes[Top.node].within[Top.i] = id
        /\ Top.inner_radius = None

\* C15: Domain.layout with no radius leaves end_transform = ((0, -length),
\* -pi/2), (0, -50) for the default length, and no circle_radius or circle_theta
C15_StraightDomainEnd ==
  [][\A id \in 1..Len(nodes) :
       StraightDomainLayout(id) =>
         /\ nodes'[id].end_transform =
              Some(Transformation(Vec(0, -nodes[id].length), Angle(-2)))
         /\ nodes'[id].end_transform[1].translation = Vec(0, -50)
         /\ nodes'[id].circle_radius = None
         /\ nodes'[id].circle_theta = None]_vars

\* C15 witness: a Domain that is the child of a Chain laid out straight (a
\* branch of a SplitComplex) has been laid out
C15_Witness ==
  \E id \in 1..Len(nodes) :
    /\ Kind(id) = "Domain"
    /\ nodes[id].parent # 0 /\ Kind(nodes[id].parent) = "Chain"
    /\ nodes[nodes[id].parent].parent # 0 /\ Kind(nodes[nodes[id].parent].parent) = "SplitComplex"
    /\ nodes[id].end_transform = Some(Transformation(Vec(0, -50), Angle(-2)))
    /\ nodes[id].circle_radius = None /\ nodes[id].circle_theta = None

\* the Gap nodes that this step has created
NewGaps == {id \in (Len(nodes) + 1)..Len(nodes') : nodes'[id].kind = "Gap"}

SingleBoundChildAt(pc) ==
  /\ phase = "layout" /\ stack # <<>>
  /\ Kind(Top.node) = "Chain" /\ Top.pc = pc
  /\ Len(nodes[Top.node].within) = 1
  /\ Bound(nodes[Top.node].within[1])

\* C17: Chain.layout on a chain whose only child is a Hairpin or SplitComplex,
\* whatever layout_circular is: no Gap is inserted and no radius computed, the
\* child is laid out with no radius, its local_transform is the identity, and
\* the chain's end_transform is the child's, ((gap, 0), 0)
C17_SingleBoundChildStraight ==
  [][LET chain == Top.node
         child == nodes[chain].within[1]
     IN  /\ SingleBoundChildAt("enter") =>
              /\ nodes' = nodes
              /\ stack'[Len(stack)].inner_radius = None
         /\ (SingleBoundChildAt("loop") /\ Top.i = 1) =>
              /\ Len(stack') = Len(stack) + 1
              /\ stack'[Len(stack')].node = child
              /\ stack'[Len(stack')].circle_radius = None
         /\ SingleBoundChildAt("placing") =>
              nodes'[child].local_transform = Identity
         /\ (SingleBoundChildAt("loop") /\ Top.i = 2) =>
              /\ nodes'[chain].end_transform = nodes[child].end_transform
              /\ nodes'[chain].end_transform =
                   Some(Transformation(Vec(DEFAULT_BOUND_GAP, 0), Angle(0)))]_vars

\* C17 witness: the top-level chain, called with layout_circular true, and the
\* inner chain of its Hairpin each hold one bound child and have been laid out
C17_Witness ==
  /\ phase = "tagged" /\ layouts = 1
  /\ Kind(Root) = "Chain" /\ RootCall.layout_circular
  /\ Len(nodes[Root].within) = 1
  /\ LET child == nodes[Root].within[1]
     IN  /\ Kind(child) = "Hairpin"
         /\ nodes[child].local_transform = Identity
         /\ nodes[child].end_transform = OffCircleEnd
         /\ nodes[Root].end_transform = OffCircleEnd
         /\ Len(nodes[nodes[child].inner].within) = 1
         /\ Kind(nodes[nodes[child].inner].within[1]) = "SplitComplex"
         /\ nodes[nodes[child].inner].end_transform = OffCircleEnd

\* what node id adds to a circumference: Domain 50, Hairpin, SplitComplex and Gap 5
ArcShare(h, id) == IF h[id].kind = "Domain" THEN 50 ELSE 5

RECURSIVE Circumference(_, _, _)

\* the shares of within[1..k]
Circumference(h, within, k) ==
  IF k = 0 THEN 0 ELSE Circumference(h, within, k - 1) + ArcShare(h, within[k])

\* the innermost call is Chain.layout at pc
ChainAt(pc) == phase = "layout" /\ stack # <<>> /\ Kind(Top.node) = "Chain" /\ Top.pc = pc

\* C18: the radius Chain.layout settles on is, for a circular layout, the one
\* of the circumference that sums the shares of the children, inserted Gaps
\* included, and hidden_gap (10 in the top-level call, 5 in every other), and
\* none for a straight layout; every child is then laid out with that radius
C18_OneRadiusFromCircumference ==
  [][LET chain == Top.node
         child == nodes[chain].within[Top.i]
         new_within == nodes'[chain].within
         hidden_gap == IF Len(stack) = 1 THEN 10 ELSE 5
         circular == Top.layout_circular
                       /\ ~(Len(nodes[chain].within) = 1 /\ Bound(nodes[chain].within[1]))
     IN  /\ ChainAt("enter") =>
              stack'[Len(stack)].inner_radius =
                IF circular
                  THEN Some(Radius(Circumference(nodes', new_within, Len(new_within)) + hidden_gap))
                  ELSE None
         /\ (ChainAt("loop") /\ Top.i <= Len(nodes[chain].within)) =>
              /\ stack'[Len(stack)].inner_radius = Top.inner_radius
              /\ IF Bound(child)
                   THEN /\ Len(stack') = Len(stack) + 1
                        /\ stack'[Len(stack')].node = child
                        /\ stack'[Len(stack')].circle_radius = Top.inner_radius
                   ELSE nodes'[child].circle_radius = Top.inner_radius
         /\ ChainAt("placing") => stack'[Len(stack)].inner_radius = Top.inner_radius]_vars

\* C18 witness: the top-level chain a( + ) a( + ) a, with its two Gaps, has the
\* circumference 5 + 5 + 5 + 5 + 50 + 10, and a Gap and the Domain were laid out
\* with that radius
C18_Witness ==
  /\ phase = "tagged" /\ layouts = 1
  /\ Kind(Root) = "Chain" /\ Len(nodes[Root].within) = 5
  /\ Kind(nodes[Root].within[1]) = "Gap"
  /\ nodes[nodes[Root].within[1]].circle_radius = Some(Radius(80))
  /\ Kind(nodes[Root].within[5]) = "Domain"
  /\ nodes[nodes[Root].within[5]].circle_radius = Some(Radius(80))

RECURSIVE FirstLeaf(_, _), LastLeaf(_, _)

\* the first Domain or Gap of the strand through node id
FirstLeaf(h, id) ==
  CASE h[id].kind \in {"Domain", "Gap"} -> id
    [] h[id].kind = "Chain" -> FirstLeaf(h, h[id].within[1])
    [] OTHER -> h[id].pre

\* the last Domain or Gap of the strand through node id
LastLeaf(h, id) ==
  CASE h[id].kind \in {"Domain", "Gap"} -> id
    [] h[id].kind = "Chain" -> LastLeaf(h, h[id].within[Len(h[id].within)])
    [] OTHER -> h[id].post

\* C19: when SplitComplex.layout returns, pre is tagged is_end if there is no
\* left branch, and otherwise the last leaf of the left chain is; post is
\* tagged is_start if there is no right branch, and otherwise the first leaf
\* of the right chain is.  While the layout of a SplitComplex with a left
\* (right) branch runs, the is_end of its pre (the is_start of its post) is
\* left as it was.
C19_SplitTagsBoundaries ==
  [][/\ (phase = "layout" /\ stack # <<>> /\ Kind(Top.node) = "SplitComplex" /\ Top.pc = "end"
           /\ Len(stack') < Len(stack)) =>
          LET split == nodes'[Top.node]
          IN  /\ split.end_transform # None
              /\ IF split.left = 0
                   THEN nodes'[split.pre].is_end
                   ELSE nodes'[LastLeaf(nodes', split.left)].is_end
              /\ IF split.right = 0
                   THEN nodes'[split.post].is_start
                   ELSE nodes'[FirstLeaf(nodes', split.right)].is_start
     /\ \A k \in 1..Len(stack) :
          LET split == nodes[stack[k].node]
          IN  (phase = "layout" /\ split.kind = "SplitComplex") =>
                /\ split.left # 0 => nodes'[split.pre].is_end = nodes[split.pre].is_end
                /\ split.right # 0 => nodes'[split.post].is_start = nodes[split.post].is_start]_vars

\* C19 witness: a( a( a ) + ) has been laid out: the post of the Hairpin that
\* ends the left chain is tagged is_end, pre is not, and post is tagged is_start
C19_Witness ==
  /\ phase = "laid" /\ layouts = 1
  /\ Kind(Root) = "SplitComplex"
  /\ nodes[Root].left # 0 /\ nodes[Root].right = 0
  /\ Kind(nodes[nodes[Root].left].within[1]) = "Hairpin"
  /\ nodes[nodes[nodes[nodes[Root].left].within[1]].post].is_end
  /\ ~nodes[nodes[Root].pre].is_end
  /\ nodes[nodes[Root].post].is_start

\* the children of node id
Children(id) ==
  {nodes[id].within[j] : j \in 1..Len(nodes[id].within)}
    \cup ({nodes[id].pre, nodes[id].post, nodes[id].inner, nodes[id].left, nodes[id].right} \ {0})

\* node sits at the transform running, turned by the angle of its own end
\* when it is a Hairpin or SplitComplex
PlacedAt(node, running) ==
  LET turn == IF Bound(node) THEN PosAngle(nodes[node].end_transform[1].translation) ELSE Angle(0)
  IN  nodes[node].local_transform =
        Transformation(running.translation, AngAdd(running.rotation, turn))

RECURSIVE PlacedInOrder(_, _, _, _)

\* within[j..n] are laid out, each placed at the running transform of its
\* earlier siblings (running, for within[j]); the sum of the end_transforms
\* of within[1..n] comes back
PlacedInOrder(within, j, n, running) ==
  IF j > n THEN [ok |-> TRUE, running |-> running]
  ELSE IF LaidOut(within[j]) /\ PlacedAt(within[j], running)
    THEN PlacedInOrder(within, j + 1, n, Compose(running, nodes[within[j]].end_transform[1]))
    ELSE [ok |-> FALSE, running |-> running]

\* C20: in the first layout no node has an end_transform before all its
\* children have one.  In a Chain.layout that has come to child i, the
\* children before i are laid out and placed at the running transform of
\* their earlier siblings, the running transform held is that of the children
\* before i, and (first layout) no child after i is laid out or placed.  Once
\* layout has returned every chain ends at the running transform of all its
\* children.
C20_BottomUpLeftToRight ==
  /\ layouts = 0 =>
       \A id \in 1..Len(nodes) : LaidOut(id) => \A c \in Children(id) : LaidOut(c)
  /\ \A k \in 1..Len(stack) :
       LET f == stack[k]
           within == nodes[f.node].within
           before == PlacedInOrder(within, 1, f.i - 1, Identity)
       IN  (Kind(f.node) = "Chain" /\ f.pc # "enter") =>
             /\ before.ok
             /\ f.cur_transform = before.running
             /\ layouts = 0 =>
                  \A j \in (f.i + 1)..Len(within) :
                    ~LaidOut(within[j]) /\ nodes[within[j]].local_transform = Identity
  /\ phase \in {"laid", "started", "tagged"} =>
       \A id \in 1..Len(nodes) :
         Kind(id) = "Chain" =>
           LET all == PlacedInOrder(nodes[id].within, 1, Len(nodes[id].within), Identity)
           IN  all.ok /\ nodes[id].end_transform = Some(all.running)

\* C20 witness: the first layout of a chain has placed a Domain and a
\* SplitComplex after it, away from the origin, and has come to its third
\* child, which is not laid out
C20_Witness ==
  /\ phase = "layout" /\ layouts = 0 /\ Len(stack) = 1
  /\ Kind(Top.node) = "Chain" /\ Top.pc = "loop" /\ Top.i = 3
  /\ LET within == nodes[Top.node].within
     IN  /\ Len(within) >= 3
         /\ Kind(within[1]) = "Domain" /\ Kind(within[2]) = "SplitComplex"
         /\ nodes[within[2]].local_transform.translation # Vec(0, 0)
         /\ nodes[within[2]].local_transform.translation
              = nodes[within[1]].end_transform[1].translation
         /\ ~LaidOut(within[3]) /\ ~LaidOut(Top.node)

Leaf(id) == Kind(id) \in {"Domain", "Gap"}

\* the Chain id is one that is laid out on a circle: the top-level chain or the
\* inner chain of a Hairpin, unless its only child is a Hairpin or SplitComplex
CircularChain(id) ==
  /\ Kind(id) = "Chain"
  /\ nodes[id].parent = 0 \/ Kind(nodes[id].parent) = "Hairpin"
  /\ ~(Len(nodes[id].within) = 1 /\ Bound(nodes[id].within[1]))

\* C21: once layout_geometry has laid the tree out, a Domain or Gap has a
\* circle_radius iff it has a circle_theta iff it is a child of a Chain that
\* was laid out on a circle; the pre and post of a Hairpin or SplitComplex,
\* the children of a straight chain and a Domain at the root have neither
C21_CircleFieldsIffOnCircle ==
  (phase \in {"laid", "started", "tagged"} /\ layouts = 1) =>
    \A id \in 1..Len(nodes) :
      Leaf(id) =>
        LET on_circle == nodes[id].parent # 0 /\ CircularChain(nodes[id].parent)
        IN  /\ (nodes[id].circle_radius # None) = on_circle
            /\ (nodes[id].circle_theta # None) = on_circle
            /\ on_circle =>
                 nodes[id].circle_theta = Some(ArcTheta(nodes[id].length, nodes[id].circle_radius[1]))

\* C21 witness: layout_geometry has returned a a( + ) a( a + ): the Domain and
\* the Gap of the top-level chain have a radius and an angle, the pre of a
\* SplitComplex and the Domain of its straight left chain have neither
C21_Witness ==
  /\ phase = "tagged" /\ layouts = 1
  /\ Kind(Root) = "Chain" /\ Len(nodes[Root].within) = 4
  /\ LET w == nodes[Root].within
         split == w[4]
     IN  /\ Kind(w[1]) = "Domain" /\ Kind(w[3]) = "Gap" /\ Kind(split) = "SplitComplex"
         /\ nodes[w[1]].circle_radius = Some(Radius(75))
         /\ nodes[w[3]].circle_radius = Some(Radius(75))
         /\ nodes[w[1]].circle_theta # None /\ nodes[w[3]].circle_theta # None
         /\ nodes[nodes[split].pre].circle_radius = None
         /\ nodes[nodes[split].pre].circle_theta = None
         /\ nodes[split].left # 0
         /\ Kind(nodes[nodes[split].left].within[1]) = "Domain"
         /\ nodes[nodes[nodes[split].left].within[1]].circle_radius = None
         /\ nodes[nodes[nodes[split].left].within[1]].circle_theta = None

RECURSIVE StrandsBalanced(_, _, _)

\* from leaf k on, with a strand open or not: a leaf tagged is_start is come to
\* with no strand open, every leaf is drawn in an open strand, a leaf tagged
\* is_end closes it, and no strand is open after the last leaf
StrandsBalanced(leaves, k, open) ==
  IF k > Len(leaves) THEN ~open
  ELSE LET leaf == nodes[leaves[k]]
       IN  /\ leaf.is_start => ~open
           /\ open \/ leaf.is_start
           /\ StrandsBalanced(leaves, k + 1, ~leaf.is_end)

Starts(leaves) == {k \in 1..Len(leaves) : nodes[leaves[k]].is_start}

Ends(leaves) == {k \in 1..Len(leaves) : nodes[leaves[k]].is_end}

Splits == {id \in 1..Len(nodes) : Kind(id) = "SplitComplex"}

\* C22: once layout_geometry has returned, over the Domains and Gaps in the
\* renderer's order the first is tagged is_start, the last is_end, the tags
\* alternate start, end, start, end with every leaf inside an open strand, and
\* there are as many starts as ends, one more than there are SplitComplexes
C22_BoundaryTagsBalanced ==
  phase = "tagged" =>
    LET leaves == visit_node(nodes, Root)
    IN  /\ Len(leaves) = Cardinality({id \in 1..Len(nodes) : Leaf(id)})
        /\ nodes[leaves[1]].is_start
        /\ nodes[leaves[Len(leaves)]].is_end
        /\ StrandsBalanced(leaves, 1, FALSE)
        /\ Cardinality(Starts(leaves)) = 1 + Cardinality(Splits)
        /\ Cardinality(Ends(leaves)) = 1 + Cardinality(Splits)

\* C22 witness: layout_geometry has returned a( a + a( + ) ) a: the first leaf
\* is an inserted Gap, tagged is_start, and the two SplitComplexes make three
\* strands, one of them the lone pre of the inner SplitComplex
C22_Witness ==
  /\ phase = "tagged" /\ layouts = 1
  /\ Kind(Root) = "Chain"
  /\ LET leaves == visit_node(nodes, Root)
     IN  /\ Kind(leaves[1]) = "Gap" /\ nodes[leaves[1]].is_start
         /\ Kind(leaves[Len(leaves)]) = "Domain" /\ nodes[leaves[Len(leaves)]].is_end
         /\ Cardinality(Splits) = 2
         /\ Cardinality(Starts(leaves)) = 3 /\ Cardinality(Ends(leaves)) = 3
         /\ \E k \in 1..Len(leaves) : nodes[leaves[k]].is_start /\ nodes[leaves[k]].is_end
         /\ \E id \in Splits : nodes[id].left # 0 /\ nodes[id].right # 0

\* pi x gap <= circumference, which is gap <= 2 r for r = circumference / (2 pi);
\* 355/113 is more than pi
ChordFits(gap, circumference) == 355 * gap <= 113 * circumference

\* C23: a Hairpin.layout or SplitComplex.layout called with a radius is called
\* by a circular Chain.layout with the radius of that chain's circumference
\* (the shares of its children, inserted Gaps included, and hidden_gap), which
\* is at least 30 and so at least pi x gap: the arcsine is defined, no layout
\* raises, and the node ends on the circle at the angle 2 asin(gap / (2 r))
C23_ArcsineArgumentInRange ==
  /\ \A k \in 1..Len(stack) :
       LET f == stack[k]
       IN  (Bound(f.node) /\ f.circle_radius # None) =>
             LET circumference == f.circle_radius[1].circumference
                 chain == stack[k - 1]
                 within == nodes[chain.node].within
             IN  /\ k > 1
                 /\ Kind(chain.node) = "Chain" /\ chain.inner_radius = f.circle_radius
                 /\ within[chain.i] = f.node
                 /\ circumference = Circumference(nodes, within, Len(within))
                                      + (IF k = 2 THEN 10 ELSE 5)
                 /\ circumference >= 30
                 /\ ChordFits(nodes[f.node].gap, circumference)
  /\ phase = "raised" => nodes = <<>>
  /\ \A id \in 1..Len(nodes) :
       (Bound(id) /\ LaidOut(id) /\ nodes[id].parent # 0 /\ CircularChain(nodes[id].parent)) =>
         LET radius == nodes[id].end_transform[1].translation.radius
         IN  /\ radius # None /\ radius[1].circumference >= 30
             /\ nodes[id].end_transform =
                  Some(calculate_end_on_circle(radius[1], ChordTheta(nodes[id].gap, radius[1])))

\* C23 witness: the smallest circle: the top-level chain a( + ) a( + ), with
\* its two Gaps and hidden_gap 10, has laid its first SplitComplex out on the
\* circumference 30 and has called the layout of the second with that radius
C23_Witness ==
  /\ phase = "layout" /\ layouts = 0 /\ Len(stack) = 2
  /\ Kind(Top.node) = "SplitComplex"
  /\ Top.circle_radius = Some(Radius(30))
  /\ nodes[Root].within[stack[1].i] = Top.node /\ stack[1].i = 4
  /\ nodes[nodes[Root].within[2]].end_transform =
       Some(calculate_end_on_circle(Radius(30), ChordTheta(5, Radius(30))))

\* the parser's token for a token of the tokeniser
AsParseToken(tok) ==
  CASE tok.type = "LABEL" -> [raised |-> None, type |-> "DOMAIN_UNBOUND", name |-> tok.value]
    [] tok.type = "LABEL_OPEN" ->
         [raised |-> None, type |-> "DOMAIN_OPEN", name |-> SubSeq(tok.value, 1, Len(tok.value) - 1)]
    [] tok.type = "RPAREN" -> [raised |-> None, type |-> "DOMAIN_CLOSE", name |-> <<>>]
    [] tok.type = "PLUS" -> [raised |-> None, type |-> "NEW_STRAND", name |-> <<>>]

\* C24: for a text that tokenise accepts, parse reads exactly the tokens that
\* tokenise produces, and a text with one more ignorable space or tab gives
\* the same parse result
C24_ParseReadsTokensOfTokenise ==
  (result.op \in {"run", "respaced"} /\ result.tokens.raised = None) =>
    /\ result.parsed.raised = None
    /\ result.parsed.read =
         [k \in 1..Len(result.tokens.tokens) |-> AsParseToken(result.tokens.tokens[k])]
    /\ result.op = "respaced" => result.respaced = result.parsed

====
